---- MODULE Spec2Model ----
(***************************************************************************)
(* Car Dodger (src/index.py): the game loop of main() as a state machine.  *)
(*                                                                         *)
(* One loop iteration of main() is: poll the pending events, run the       *)
(* update step, draw.  The events are the actions KeyDown, KeyUp and Quit; *)
(* the update step together with the draw step is the action Tick.  An     *)
(* event is handled against the session state only, so handling it in the  *)
(* iteration in which it is polled is the same as a step between two       *)
(* Ticks.                                                                  *)
(*                                                                         *)
(* Numbers.  The speed multiplier is a float 1.0, 1.1, ..., 2.2 in the     *)
(* code; it is kept here in tenths (10 .. 22).  An enemy's speed           *)
(* base_enemy_speed * speed_mult is kept in tenths of a pixel (60 .. 132). *)
(* pygame.Rect stores integers and truncates a float assigned to one of    *)
(* its attributes toward zero; int() truncates toward zero as well.        *)
(***************************************************************************)
EXTENDS Integers, Sequences, FiniteSets

\* ---------------------------------------------------------------- constants
WIDTH == 480
HEIGHT == 700
LANE_COUNT == 3
ROAD_MARGIN == 60
LANE_WIDTH == (WIDTH - ROAD_MARGIN * 2) \div LANE_COUNT

PlayerWidth == LANE_WIDTH \div 2
PlayerHeight == 80
PlayerSpeed == 8
PlayerY == HEIGHT - PlayerHeight - 40
EnemyWidth == LANE_WIDTH \div 2
EnemyHeight == 80
TopBand == 120
OffscreenMargin == 10
RoadGap == 32
RoadLen == 24
RoadSpeed == 6
InitialScore == 10000
InitialHighScore == 12000
spawn_interval == 900
MinInterval == 320
base_enemy_speed == 6
RampStep == 5000
MaxMult == 22

\* ------------------------------------------------------------------- bounds
\* Elapsed milliseconds clock.tick(FPS) may report for a frame: a slow frame
\* (the spawn interval is not reached in every frame) and a stalled frame
\* (the speed multiplier climbs one step per frame).
DtFrame == 450
DtStall == 4900
\* The frame time of an unloaded machine at FPS = 60: enemies are spawned
\* sparsely enough to be dodged until they leave the screen.
DtNormal == 17
DtSet == {DtNormal, DtFrame, DtStall}
\* Simulated (unpaused RUN) frames explored per process.
MaxFrames == 80
\* The same for a run at the frame time DtNormal, in which the first enemy
\* is spawned in frame 53 and leaves the screen in frame 184.
MaxNormalFrames == 186
\* Length of the "hold move-right" scenario, in Player.update calls.
HoldTicks == 60

Lanes == 0 .. (LANE_COUNT - 1)
Keys == {"K_LEFT", "K_a", "K_RIGHT", "K_d", "K_p", "K_r", "K_ESCAPE", "K_q", "K_SPACE"}
NoCrash == -1

\* player            Player.rect.x and Player.move_dir (y, width, height fixed)
\* enemies           the list enemies: rect.x, rect.y and speed of each Enemy
\* stripes           rect.y of each stripe of Road.stripes
\* score, high_score, state, paused, spawn_timer, difficulty_timer
\*                   the locals of main() of the same names
\* speed_mult        speed_mult as assigned at lines 211-212 (0: not yet assigned)
\* current_interval  current_interval of line 219 (0: not yet assigned)
\* hud_speed_mult    speed_mult as assigned at line 246 and passed to draw_hud
\* dt                the frame time clock.tick(FPS) reports in this run
\* frames            number of simulated frames so far (bounds the exploration)
\* right_ticks       number of Player.update calls on the current Player if it
\*                   was moving right in each of them, -1 otherwise
\* final_best        largest final score of a crashed session, NoCrash if none
\* births            for each Enemy of enemies, the frame it was spawned in
VARIABLES player, enemies, stripes, score, high_score, state, paused,
          spawn_timer, difficulty_timer, speed_mult, current_interval,
          hud_speed_mult, dt, frames, right_ticks, final_best, births

vars == <<player, enemies, stripes, score, high_score, state, paused,
          spawn_timer, difficulty_timer, speed_mult, current_interval,
          hud_speed_mult, dt, frames, right_ticks, final_best, births>>

\* ------------------------------------------------------------------ helpers
Max(a, b) == IF a >= b THEN a ELSE b

Min(a, b) == IF a <= b THEN a ELSE b

\* int(n / 10) for an integer n of tenths: truncation toward zero.
TruncTenths(n) == IF n >= 0 THEN n \div 10 ELSE -((-n) \div 10)

lane_x(lane_index) == ROAD_MARGIN + lane_index * LANE_WIDTH + LANE_WIDTH \div 8

\* ------------------------------------------------------------------- Player
PlayerInit == [x |-> lane_x(LANE_COUNT \div 2) + (LANE_WIDTH \div 2 - PlayerWidth \div 2),
               move_dir |-> 0]

left_bound == ROAD_MARGIN + 10

\* The right bound taken for the rectangle's left edge without its width.
right_bound_ignoring_width == WIDTH - ROAD_MARGIN - 10

right_bound == WIDTH - ROAD_MARGIN - 10 - PlayerWidth

PlayerUpdate(p) == [p EXCEPT !.x = Max(left_bound, Min(right_bound, p.x + p.move_dir * PlayerSpeed))]

\* -------------------------------------------------------------------- Enemy
EnemyInit(lane, speed) == [x |-> lane_x(lane) + (LANE_WIDTH \div 2 - EnemyWidth \div 2),
                           y |-> -EnemyHeight,
                           speed |-> speed]

\* An update that assigns the speed instead of adding it.
EnemyUpdateAssign(e) == [e EXCEPT !.y = TruncTenths(e.speed)]

EnemyUpdate(e) == [e EXCEPT !.y = TruncTenths(10 * e.y + e.speed)]

\* The off-screen test without the removal margin.
offscreen_without_margin(e) == e.y > HEIGHT

offscreen(e) == e.y > HEIGHT + OffscreenMargin

\* pygame.Rect.colliderect of the enemy's and the player's rectangle.
colliderect(e, p) == /\ e.x < p.x + PlayerWidth
                     /\ p.x < e.x + EnemyWidth
                     /\ e.y < PlayerY + PlayerHeight
                     /\ PlayerY < e.y + EnemyHeight

\* --------------------------------------------------------------------- Road
StripeRows == 15

RoadInit == [i \in 1 .. (StripeRows * (LANE_COUNT - 1)) |->
               -100 + ((i - 1) \div (LANE_COUNT - 1)) * (RoadGap * 2)]

RoadUpdate(ss, m) == [i \in DOMAIN ss |->
                        IF ss[i] + TruncTenths(RoadSpeed * m) > HEIGHT
                        THEN -RoadLen
                        ELSE ss[i] + TruncTenths(RoadSpeed * m)]

\* ------------------------------------------------------------------ spawner
EnemyLane(e) == Min(Max((e.x + EnemyWidth \div 2 - ROAD_MARGIN) \div LANE_WIDTH, 0), LANE_COUNT - 1)

\* A top band that ends at the visible top edge.
NearTopAboveScreen(e) == e.y < 0

NearTop(e) == e.y < TopBand

Occupied(es) == {EnemyLane(es[i]) : i \in {j \in DOMAIN es : NearTop(es[j])}}

FreeLanes(es) == {l \in Lanes : l \notin Occupied(es)}

\* The lists spawn_enemy may leave behind: random.choice over the free lanes.
spawn_enemy(es, difficulty_speed) == IF FreeLanes(es) = {}
                                     THEN {es}
                                     ELSE {Append(es, EnemyInit(l, difficulty_speed)) : l \in FreeLanes(es)}

\* ---------------------------------------------------------------- main loop
\* The ramp without the cap of line 212.
SpeedMultUncapped(t) == 10 + (t \div RampStep)

\* speed_mult of lines 211-212, in tenths.
SpeedMult(t) == Min(10 + (t \div RampStep), MaxMult)

\* The floor applied with min instead of max.
CurrentIntervalMin(m) == Min(MinInterval, (spawn_interval * 10) \div m)

\* max(320, int(spawn_interval / speed_mult)), m in tenths.
CurrentInterval(m) == Max(MinInterval, (spawn_interval * 10) \div m)

\* The gain rounded to the nearest integer instead of truncated.
ScoreGainRounded(d, m) == (d * m + 500) \div 1000

\* int(10 * (dt / 1000.0) * speed_mult), m in tenths.  The float product is
\* the exact one for the frame times of DtSet.
ScoreGain(d, m) == (d * m) \div 1000

\* speed_mult of line 246, in tenths: not capped, 1.0 outside RUN.
HudMult(st, t) == IF st = "RUN" THEN 10 + (t \div RampStep) ELSE 10

\* The update guard without the pause test.
SimActiveIgnoringPause == state = "RUN"

SimActive == state = "RUN" /\ ~paused

FrameBudget == IF dt = DtNormal THEN MaxNormalFrames ELSE MaxFrames

\* The interval test with > instead of >=.
SpawnDueStrict(d, m) == spawn_timer + d > CurrentInterval(m)

SpawnDue(d, m) == spawn_timer + d >= CurrentInterval(m)

MoveEnemies(es) == SelectSeq([i \in DOMAIN es |-> EnemyUpdate(es[i])], LAMBDA e : ~offscreen(e))

\* The spawn frames bs of the enemies of es that MoveEnemies keeps.
RECURSIVE KeptBirths(_, _)
KeptBirths(bs, es) == IF es = << >>
                      THEN << >>
                      ELSE (IF offscreen(EnemyUpdate(Head(es))) THEN << >> ELSE <<Head(bs)>>)
                           \o KeptBirths(Tail(bs), Tail(es))

\* A collision test that looks at the first enemy of the list only.
CrashFirstOnly(es, p) == es # << >> /\ colliderect(es[1], p)

Crash(es, p) == \E i \in DOMAIN es : colliderect(es[i], p)

Init == /\ player = PlayerInit
        /\ enemies = << >>
        /\ stripes = RoadInit
        /\ score = InitialScore
        /\ high_score = InitialHighScore
        /\ state = "RUN"
        /\ paused = FALSE
        /\ spawn_timer = 0
        /\ difficulty_timer = 0
        /\ speed_mult = 0
        /\ current_interval = 0
        /\ hud_speed_mult = 0
        /\ dt \in DtSet
        /\ frames = 0
        /\ right_ticks = 0
        /\ final_best = NoCrash
        /\ births = << >>

\* The update step of an unpaused RUN frame (lines 208-237) and the draw step.
Simulate(d) == LET t == difficulty_timer + d
                   m == SpeedMult(t)
                   p == PlayerUpdate(player)
               IN /\ frames < FrameBudget
                  /\ frames' = frames + 1
                  /\ difficulty_timer' = t
                  /\ speed_mult' = m
                  /\ stripes' = RoadUpdate(stripes, m)
                  /\ player' = p
                  /\ right_ticks' = IF right_ticks >= 0 /\ player.move_dir = 1
                                    THEN Min(right_ticks + 1, HoldTicks)
                                    ELSE -1
                  /\ current_interval' = CurrentInterval(m)
                  /\ spawn_timer' = IF SpawnDue(d, m) THEN 0 ELSE spawn_timer + d
                  /\ \E spawned \in (IF SpawnDue(d, m)
                                     THEN spawn_enemy(enemies, base_enemy_speed * m)
                                     ELSE {enemies}) :
                        /\ enemies' = MoveEnemies(spawned)
                        /\ births' = KeptBirths(IF Len(spawned) > Len(enemies)
                                                THEN Append(births, frames + 1)
                                                ELSE births,
                                                spawned)
                  /\ state' = IF Crash(enemies', p) THEN "OVER" ELSE state
                  /\ high_score' = IF Crash(enemies', p) THEN Max(high_score, score) ELSE high_score
                  /\ score' = score + ScoreGain(d, m)
                  /\ final_best' = IF Crash(enemies', p) THEN Max(final_best, score') ELSE final_best
                  /\ hud_speed_mult' = HudMult(state', t)
                  /\ UNCHANGED <<paused, dt>>

\* A frame in which the update step is skipped: paused, or after a crash.
Idle == /\ hud_speed_mult' = HudMult(state, difficulty_timer)
        /\ UNCHANGED <<player, enemies, stripes, score, high_score, state, paused,
                       spawn_timer, difficulty_timer, speed_mult, current_interval,
                       dt, frames, right_ticks, final_best, births>>

\* One frame: dt = clock.tick(FPS), update, draw.  The frame time is steady.
Tick(d) == /\ state # "QUIT"
           /\ d = dt
           /\ IF SimActive THEN Simulate(d) ELSE Idle

\* A restart that forgets enemies.clear().
RestartKeepsEnemies == /\ player' = PlayerInit
                       /\ score' = 0
                       /\ spawn_timer' = 0
                       /\ difficulty_timer' = 0
                       /\ state' = "RUN"
                       /\ paused' = FALSE
                       /\ right_ticks' = 0
                       /\ UNCHANGED <<enemies, stripes, high_score, speed_mult, current_interval,
                                      hud_speed_mult, dt, frames, final_best, births>>

Restart == /\ player' = PlayerInit
           /\ enemies' = << >>
           /\ score' = 0
           /\ spawn_timer' = 0
           /\ difficulty_timer' = 0
           /\ state' = "RUN"
           /\ paused' = FALSE
           /\ right_ticks' = 0
           /\ UNCHANGED <<stripes, high_score, speed_mult, current_interval,
                          hud_speed_mult, dt, frames, final_best>>
           /\ births' = << >>

SetMoveDir(v) == /\ player' = [player EXCEPT !.move_dir = v]
                 /\ UNCHANGED <<enemies, stripes, score, high_score, state, paused,
                                spawn_timer, difficulty_timer, speed_mult, current_interval,
                                hud_speed_mult, dt, frames, right_ticks, final_best, births>>

TogglePause == /\ paused' = ~paused
               /\ UNCHANGED <<player, enemies, stripes, score, high_score, state,
                              spawn_timer, difficulty_timer, speed_mult, current_interval,
                              hud_speed_mult, dt, frames, right_ticks, final_best, births>>

Exit == /\ state' = "QUIT"
        /\ UNCHANGED <<player, enemies, stripes, score, high_score, paused,
                       spawn_timer, difficulty_timer, speed_mult, current_interval,
                       hud_speed_mult, dt, frames, right_ticks, final_best, births>>

\* A key handler that toggles the pause flag in every state.
KeyDownPauseAnywhere(k) == /\ state # "QUIT"
                           /\ IF k \in {"K_ESCAPE", "K_q"} THEN Exit
                              ELSE IF k = "K_p" THEN TogglePause
                              ELSE IF state = "RUN" /\ k \in {"K_LEFT", "K_a"} THEN SetMoveDir(-1)
                              ELSE IF state = "RUN" /\ k \in {"K_RIGHT", "K_d"} THEN SetMoveDir(1)
                              ELSE IF state = "OVER" /\ k = "K_r" THEN Restart
                              ELSE UNCHANGED vars

\* A key handler that takes K_r for a restart in the RUN state as well.
KeyDownRestartInRun(k) == /\ state # "QUIT"
                          /\ IF k \in {"K_ESCAPE", "K_q"} THEN Exit
                             ELSE IF state = "RUN" /\ k \in {"K_LEFT", "K_a"} THEN SetMoveDir(-1)
                             ELSE IF state = "RUN" /\ k \in {"K_RIGHT", "K_d"} THEN SetMoveDir(1)
                             ELSE IF state = "RUN" /\ k = "K_p" THEN TogglePause
                             ELSE IF k = "K_r" THEN Restart
                             ELSE UNCHANGED vars

\* A key handler that honours K_r without looking at the state.
KeyDownRestartAnywhere(k) == /\ state # "QUIT"
                             /\ IF k \in {"K_ESCAPE", "K_q"} THEN Exit
                                ELSE IF k = "K_r" THEN Restart
                                ELSE IF state = "RUN" /\ k \in {"K_LEFT", "K_a"} THEN SetMoveDir(-1)
                                ELSE IF state = "RUN" /\ k \in {"K_RIGHT", "K_d"} THEN SetMoveDir(1)
                                ELSE IF state = "RUN" /\ k = "K_p" THEN TogglePause
                                ELSE UNCHANGED vars

KeyDown(k) == /\ state # "QUIT"
              /\ IF k \in {"K_ESCAPE", "K_q"} THEN Exit
                 ELSE IF state = "RUN" /\ k \in {"K_LEFT", "K_a"} THEN SetMoveDir(-1)
                 ELSE IF state = "RUN" /\ k \in {"K_RIGHT", "K_d"} THEN SetMoveDir(1)
                 ELSE IF state = "RUN" /\ k = "K_p" THEN TogglePause
                 ELSE IF state = "OVER" /\ k = "K_r" THEN Restart
                 ELSE UNCHANGED vars

\* A key release handled without the state test of line 203.
KeyUpAnyState(k) == /\ state # "QUIT"
                    /\ IF k \in {"K_LEFT", "K_a", "K_RIGHT", "K_d"}
                       THEN SetMoveDir(0)
                       ELSE UNCHANGED vars

KeyUp(k) == /\ state # "QUIT"
            /\ IF state = "RUN" /\ k \in {"K_LEFT", "K_a", "K_RIGHT", "K_d"}
               THEN SetMoveDir(0)
               ELSE UNCHANGED vars

\* The window's close button: the pygame.QUIT event.
Quit == /\ state # "QUIT"
        /\ Exit

Next == \/ \E d \in DtSet : Tick(d)
        \/ \E k \in Keys : KeyDown(k)
        \/ \E k \in Keys : KeyUp(k)
        \/ Quit

Spec == Init /\ [][Next]_vars

\* A run at the frame time of an unloaded machine, the only one in which an
\* enemy can be dodged until it leaves the screen.
LiveInit == Init /\ dt = DtNormal

\* The loop of main() never stops iterating: a frame that can be run is run.
LiveSpec == LiveInit /\ [][Next]_vars /\ WF_vars(\E d \in DtSet : Tick(d))

\* ------------------------------------------------------------------ claims

\* C1: a collision found in an unpaused RUN tick ends that tick in the OVER
\* state with the best score equal to max(best score before the tick, score),
\* the score being the one the tick ends with.
C1_CrashRecordsScore == [][\A d \in DtSet :
                             (SimActive /\ Tick(d) /\ Crash(enemies', player'))
                             => (state' = "OVER" /\ high_score' = Max(high_score, score'))]_vars

\* C2: the restart command applied in the OVER state yields RUN, unpaused,
\* score 0, no enemies, both timers 0 and a fresh player at the start
\* position with move intent 0.
C2_RestartResets == [][(state = "OVER" /\ KeyDown("K_r"))
                         => /\ state' = "RUN"
                            /\ paused' = FALSE
                            /\ score' = 0
                            /\ enemies' = << >>
                            /\ spawn_timer' = 0
                            /\ difficulty_timer' = 0
                            /\ player' = [x |-> 225, move_dir |-> 0]]_vars

\* A session that has just been restarted after a crash.
C2_Witness == /\ final_best # NoCrash
              /\ state = "RUN"
              /\ score = 0
              /\ difficulty_timer = 0
              /\ enemies = << >>
              /\ stripes # RoadInit

\* C3: while the pause flag is set a frame tick changes neither the player,
\* the enemies, the road stripes, the score, the best score, the timers nor
\* the state: nothing is spawned and no crash is detected.
C3_PausedTickFrozen == [][\A d \in DtSet :
                            (paused /\ Tick(d))
                            => UNCHANGED <<player, enemies, stripes, score, high_score,
                                           spawn_timer, difficulty_timer, state>>]_vars

\* A frame has been drawn while paused before any frame was simulated, with
\* a frame time at which the spawner would have been due.
C3_Witness == /\ paused
              /\ state = "RUN"
              /\ frames = 0
              /\ hud_speed_mult = 10
              /\ dt >= spawn_interval

\* C4: the score never decreases in a step taken while RUN, and is unchanged
\* by every step taken while paused and by every step taken in the OVER state
\* other than the restart command.
C4_ScoreMonotone == [][/\ (state = "RUN" => score' >= score)
                       /\ (state = "RUN" /\ paused => score' = score)
                       /\ (state = "OVER" /\ ~KeyDown("K_r") => score' = score)]_vars

\* A crashed session whose score had grown while it ran.
C4_Witness == /\ state = "OVER"
              /\ score > InitialScore
              /\ hud_speed_mult = 10

\* C5: the multiplier of an unpaused RUN tick is min(1.0 + floor(timer/5000)
\* * 0.1, 2.2) of the timer after adding dt; it never exceeds 2.2, never
\* decreases within a session, and is 1.0 while the timer is below 5000,
\* also in a session that follows a restart.
C5_SpeedMultiplier == [][\A d \in DtSet :
                           (SimActive /\ Tick(d))
                           => /\ difficulty_timer' = difficulty_timer + d
                              /\ \/ speed_mult' = 10 + difficulty_timer' \div 5000 /\ speed_mult' < 22
                                 \/ speed_mult' = 22 /\ difficulty_timer' \div 5000 >= 12
                              /\ (difficulty_timer > 0 => speed_mult' >= speed_mult)
                              /\ (difficulty_timer' < 5000 => speed_mult' = 10)]_vars

\* The first tick of a restarted session ran at 1.0 although the crashed
\* session before it had reached the cap.
C5_Witness == /\ final_best # NoCrash
              /\ state = "RUN"
              /\ difficulty_timer = dt
              /\ difficulty_timer < 5000
              /\ speed_mult = 10
              /\ frames > 70

\* C6: the player's left x coordinate always lies in [70, 350], and a player
\* that has moved right in each of its first n updates stands at
\* min(350, 225 + 8 * n): at 350 after 60 updates.
C6_PlayerInRoad == /\ player.x >= 70
                   /\ player.x <= 350
                   /\ (right_ticks >= 0 => player.x = Min(350, 225 + 8 * right_ticks))
                   /\ (right_ticks = HoldTicks => player.x = 350)

\* Move-right has been held for the whole scenario from the start position.
C6_Witness == right_ticks = HoldTicks /\ HoldTicks >= 60 /\ player.move_dir = 1

\* C7: every enemy stands at the x of the lane its centre falls in; a spawner
\* invocation appends exactly one enemy, in a lane holding no enemy with top
\* edge above 120, when such a lane exists, and appends nothing when all
\* lanes hold one.
C7_SpawnerAvoidsOccupied ==
    /\ [](\A i \in DOMAIN enemies : enemies[i].x = lane_x(EnemyLane(enemies[i])) + 30)
    /\ [][\A d \in DtSet :
            (SimActive /\ Tick(d) /\ spawn_timer + d >= current_interval')
            => LET occ == {l \in 0 .. 2 : \E i \in DOMAIN enemies :
                               enemies[i].y < 120 /\ enemies[i].x = lane_x(l) + 30}
                   fresh == {i \in DOMAIN enemies' :
                               enemies'[i].y = TruncTenths(-800 + enemies'[i].speed)}
                   n == Len(enemies')
               IN IF occ = 0 .. 2
                  THEN fresh = {} /\ enemies' = MoveEnemies(enemies)
                  ELSE /\ n >= 1
                       /\ fresh = {n}
                       /\ SubSeq(enemies', 1, n - 1) = MoveEnemies(enemies)
                       /\ \E l \in (0 .. 2) \ occ : enemies'[n].x = lane_x(l) + 30]_vars

\* The spawner was due in the fourth frame (the spawn timer is back at 0)
\* and added nothing: the three enemies of the first three frames hold the
\* three lanes.
C7_Witness == /\ frames = 4
              /\ spawn_timer = 0
              /\ Len(enemies) = 3
              /\ {enemies[i].x : i \in DOMAIN enemies} = {105, 225, 345}

\* C8 as stated: the spawn interval of an unpaused RUN tick equals
\* max(320, 900 / speedMultiplier) exactly, is 900 below 5000 ms, 600 at
\* multiplier 1.5, lies in [320, 900] and never increases within a session.
C8_IntervalExactQuotient == [][\A d \in DtSet :
                                 (SimActive /\ Tick(d))
                                 => /\ current_interval' * speed_mult' = Max(320 * speed_mult', 9000)
                                    /\ (difficulty_timer' < 5000 => current_interval' = 900)
                                    /\ (speed_mult' = 15 => current_interval' = 600)
                                    /\ current_interval' >= 320
                                    /\ current_interval' <= 900
                                    /\ (difficulty_timer > 0 => current_interval' <= current_interval)]_vars

\* C8 amended: the spawn interval of an unpaused RUN tick equals
\* max(320, floor(900 / speedMultiplier)), the quotient truncated to whole
\* milliseconds; it is 900 below 5000 ms, 600 at multiplier 1.5, lies in
\* [320, 900] and never increases within a session.
C8_IntervalTruncated == [][\A d \in DtSet :
                             (SimActive /\ Tick(d))
                             => /\ \/ /\ current_interval' >= 320
                                      /\ current_interval' * speed_mult' <= 9000
                                      /\ 9000 < (current_interval' + 1) * speed_mult'
                                   \/ /\ current_interval' = 320
                                      /\ 9000 < 320 * speed_mult'
                                /\ (difficulty_timer' < 5000 => current_interval' = 900)
                                /\ (speed_mult' = 15 => current_interval' = 600)
                                /\ current_interval' >= 320
                                /\ current_interval' <= 900
                                /\ (difficulty_timer > 0 => current_interval' <= current_interval)]_vars

\* A tick at multiplier 1.1 has set the interval to 818 ms, below 900 / 1.1.
C8_Witness == /\ speed_mult = 11
              /\ current_interval = 818
              /\ difficulty_timer >= 5000

\* C9 as stated: an unpaused RUN tick adds round(10 * (dt / 1000) * m) to the
\* score, the product rounded to the nearest integer (ties to even).
C9_GainRounded == [][\A d \in DtSet :
                       (SimActive /\ Tick(d))
                       => LET n == d * speed_mult'
                              q == n \div 1000
                              r == n % 1000
                          IN score' = score + (IF r > 500 \/ (r = 500 /\ q % 2 = 1)
                                               THEN q + 1 ELSE q)]_vars

\* C9 amended: an unpaused RUN tick adds int(10 * (dt / 1000) * m) to the
\* score, the product truncated toward zero.
C9_GainTruncated == [][\A d \in DtSet :
                         (SimActive /\ Tick(d))
                         => /\ (score' - score) * 1000 <= d * speed_mult'
                            /\ d * speed_mult' < (score' - score + 1) * 1000]_vars

\* Two stalled frames have added 49 and 53 (of 49.0 and 53.9).
C9_Witness == /\ frames = 2
              /\ speed_mult = 11
              /\ dt > 4000
              /\ score = 10102

\* C10: the best score is the largest final score of the sessions that have
\* crashed, and the starting value of the score while none has; it is never
\* larger than every score reached so far.
C10_BestIsMaxFinal == /\ high_score = (IF final_best = NoCrash THEN InitialScore ELSE final_best)
                      /\ high_score <= Max(final_best, score)

\* C11: the restart command applied in the RUN state, paused or not, changes
\* neither the player, the enemies, the score, the best score, the timers,
\* the pause flag nor the state.
C11_RestartIgnoredInRun == [][(state = "RUN" /\ KeyDown("K_r"))
                                => UNCHANGED <<player, enemies, score, high_score, spawn_timer,
                                               difficulty_timer, paused, state>>]_vars

\* A paused running session with enemies on the road, a moving player and a
\* score that has grown: everything a restart would reset.
C11_Witness == /\ state = "RUN"
               /\ paused
               /\ Len(enemies) >= 3
               /\ player.x # 225
               /\ score > InitialScore
               /\ spawn_timer > 0

\* C12: in the OVER state a frame tick, a key release and a key press other
\* than restart and quit leave the state OVER and change neither the player
\* (position and move intent), the enemies, the score, the best score nor the
\* timers.
C12_CrashedIsTerminal == [][(/\ state = "OVER"
                             /\ \/ \E d \in DtSet : Tick(d)
                                \/ \E k \in Keys \ {"K_r", "K_ESCAPE", "K_q"} : KeyDown(k)
                                \/ \E k \in Keys : KeyUp(k))
                              => /\ state' = "OVER"
                                 /\ UNCHANGED <<player, enemies, score, high_score, spawn_timer,
                                                difficulty_timer>>]_vars

\* A session that crashed while a move key was held down.
C12_Witness == /\ state = "OVER"
               /\ player.move_dir # 0
               /\ Len(enemies) >= 1
               /\ score > high_score

\* C13: no enemy of the collection is off-screen (top edge greater than
\* HEIGHT + 10 = 710); an enemy that a tick moves off-screen would stay
\* off-screen under one more update; a tick removes exactly the enemies it
\* has moved off-screen, and outside a tick the collection changes only by
\* a restart.
C13_OffscreenRemoval ==
    /\ [](\A i \in DOMAIN enemies : enemies[i].y <= 710)
    /\ [][\A d \in DtSet :
            (SimActive /\ Tick(d))
            => LET moved == [i \in DOMAIN enemies |->
                               [enemies[i] EXCEPT !.y = TruncTenths(10 * enemies[i].y + enemies[i].speed)]]
                   kept == {i \in DOMAIN enemies : moved[i].y <= 710}
               IN /\ \A i \in DOMAIN enemies \ kept :
                        offscreen(moved[i]) /\ offscreen(EnemyUpdate(moved[i]))
                  /\ \A i \in kept : ~offscreen(moved[i])
                  /\ Len(enemies') >= Cardinality(kept)
                  /\ \A i \in kept : \E j \in DOMAIN enemies' : enemies'[j] = moved[i]]_vars
    /\ [][(enemies' # enemies)
            => \/ \E d \in DtSet : SimActive /\ Tick(d)
               \/ state = "OVER" /\ KeyDown("K_r") /\ enemies' = << >>]_vars

\* The first of three enemies spawned at the normal frame time has left the
\* screen and was removed; the session has not crashed.
C13_Witness == /\ dt = DtNormal
               /\ frames >= 184
               /\ final_best = NoCrash
               /\ state = "RUN"
               /\ Len(enemies) = 2

\* C14: in every frame the multiplier passed to the HUD is the simulation's
\* multiplier for the current difficulty timer, min(1.0 + floor(timer / 5000)
\* * 0.1, 2.2), and so never above 2.2.
C14_HudShowsSimMultiplier == [][\A d \in DtSet :
                                  Tick(d)
                                  => /\ hud_speed_mult' <= 22
                                     /\ \/ hud_speed_mult' = 10 + difficulty_timer' \div 5000
                                        \/ hud_speed_mult' = 22 /\ difficulty_timer' \div 5000 > 12]_vars

\* C15: the pause command flips the pause flag in the RUN state and changes
\* nothing else, changes nothing in the OVER state, and no state is both
\* OVER and paused.
C15_PauseToggle ==
    /\ [](~(state = "OVER" /\ paused))
    /\ [][KeyDown("K_p")
            => /\ (state = "RUN" => paused' = ~paused)
               /\ (state = "OVER" => paused' = paused)
               /\ UNCHANGED <<player, enemies, stripes, score, high_score, state,
                              spawn_timer, difficulty_timer, speed_mult, current_interval,
                              hud_speed_mult, dt, frames, right_ticks, final_best, births>>]_vars

\* A session paused in mid-run, with a spawn timer that is part-way to the
\* interval.
C15_Witness == /\ paused
               /\ state = "RUN"
               /\ frames > 0
               /\ spawn_timer > 0
               /\ Len(enemies) >= 1

\* C16: in an unpaused RUN tick the spawn timer is reset to 0 exactly when,
\* after adding dt, it has reached the tick's interval, whether or not an
\* enemy is added; an enemy is added only then, and whenever a lane is free
\* then; an added enemy carries the speed 6 * multiplier of that tick, and
\* every other enemy keeps its speed and its x.
C16_SpawnTimer ==
    [][\A d \in DtSet :
         (SimActive /\ Tick(d))
         => LET due == spawn_timer + d >= current_interval'
                fresh == {i \in DOMAIN enemies' :
                            enemies'[i].y = TruncTenths(-800 + enemies'[i].speed)}
                free == {l \in 0 .. 2 : \A i \in DOMAIN enemies :
                            enemies[i].y < 120 => enemies[i].x # lane_x(l) + 30}
            IN /\ (due => spawn_timer' = 0)
               /\ (~due => spawn_timer' = spawn_timer + d /\ fresh = {})
               /\ (due /\ free # {} => fresh # {})
               /\ \A i \in fresh : enemies'[i].speed = 6 * speed_mult'
               /\ \A j \in DOMAIN enemies' \ fresh :
                     \E i \in DOMAIN enemies :
                        /\ enemies'[j].speed = enemies[i].speed
                        /\ enemies'[j].x = enemies[i].x
                        /\ enemies'[j].y > enemies[i].y]_vars

\* The spawn timer is part-way to the interval, and an enemy spawned at
\* multiplier 1.0 still has the speed 6.0 at a higher multiplier.
C16_Witness == /\ spawn_timer > 0
               /\ speed_mult > 10
               /\ Len(enemies) >= 2
               /\ enemies[1].speed = 60
               /\ enemies[Len(enemies)].speed > 60

\* C17: in the RUN state no enemy rectangle overlaps the player rectangle,
\* and the state leaves RUN for OVER only in an unpaused tick that ends with
\* such an overlap.
C17_NoOverlapWhileRunning ==
    /\ [](state = "RUN"
           => \A i \in DOMAIN enemies :
                 ~(/\ enemies[i].x < player.x + 60
                   /\ player.x < enemies[i].x + 60
                   /\ enemies[i].y < 660
                   /\ 580 < enemies[i].y + 80))
    /\ [][(state = "RUN" /\ state' = "OVER")
            => /\ ~paused
               /\ \E d \in DtSet : Tick(d)
               /\ \E i \in DOMAIN enemies' :
                     /\ enemies'[i].x < player'.x + 60
                     /\ player'.x < enemies'[i].x + 60
                     /\ enemies'[i].y < 660
                     /\ 580 < enemies'[i].y + 80]_vars

\* A running session in which an enemy is passing the player in another
\* lane.
C17_Witness == /\ state = "RUN"
               /\ \E i \in DOMAIN enemies : enemies[i].y > 500 /\ enemies[i].y < 660

\* C18: in the OVER state the best score is at least the score.
C18_BestCoversFinalScore == state = "OVER" => high_score >= score

\* C19: the restart command leaves the session state of process start: the
\* score, the state, the pause flag, the timers, the enemies and the
\* player's position of Init.
C19_RestartEqualsInit == [][(state = "OVER" /\ KeyDown("K_r"))
                              => /\ score' = InitialScore
                                 /\ state' = "RUN"
                                 /\ paused' = FALSE
                                 /\ spawn_timer' = 0
                                 /\ difficulty_timer' = 0
                                 /\ enemies' = << >>
                                 /\ player'.x = 225]_vars

\* The most updates an enemy gets: the slowest one, 6 px per frame, is
\* beyond HEIGHT + 10 after 132 of them.
CrossingTicks == (HEIGHT + OffscreenMargin + EnemyHeight) \div base_enemy_speed + 1

\* An enemy spawned early enough to cross the screen in the explored frames.
EarlyEnemyOnRoad == \E i \in DOMAIN births : births[i] <= FrameBudget - CrossingTicks

\* C20: every unpaused RUN tick moves every enemy strictly downward; an enemy
\* of the collection has had fewer than CrossingTicks updates, so that the
\* collection never holds more than CrossingTicks enemies; and while the
\* session keeps running unpaused every enemy on the road is eventually
\* removed from the collection.
C20_EnemiesLeave ==
    /\ [](/\ Len(enemies) <= CrossingTicks
          /\ \A i \in DOMAIN births : frames - births[i] + 1 < CrossingTicks)
    /\ [][\A d \in DtSet :
            (SimActive /\ Tick(d))
            => \A j \in DOMAIN enemies' : \A i \in DOMAIN enemies :
                  births'[j] = births[i] => enemies'[j].y > enemies[i].y]_vars
    /\ (EarlyEnemyOnRoad ~> (~EarlyEnemyOnRoad \/ state # "RUN" \/ paused))

\* The first enemy has crossed the screen and left the collection while the
\* two spawned after it are on the road.
C20_Witness == /\ dt = DtNormal
               /\ state = "RUN"
               /\ Len(births) = 2
               /\ births[1] > FrameBudget - CrossingTicks
               /\ final_best = NoCrash

====
